---- MODULE Spec2Model ----
(***************************************************************************)
(* Model of app_project/app.py: the flat-file project list (/projects),    *)
(* the calculator with per-session history (/), and the stock lookup       *)
(* (/stocks).  Text is modelled character by character (run-length         *)
(* encoded), so that stripping, line splitting and serialisation are       *)
(* computed as the code computes them.                                     *)
(***************************************************************************)
EXTENDS Integers, Sequences, FiniteSets, TLC

\* ------------------------------------------------------------------------
\* Bounds of the model (not program constants)
\* ------------------------------------------------------------------------
\* Largest number of lines the project file is allowed to grow to.
MaxLines == 4
\* Largest number of entries of the session history.
MaxHist == 3
\* Largest number of dated entries in a "Time Series (Daily)" map.
MaxDates == 2

\* ------------------------------------------------------------------------
\* Text helpers (Python str methods used by the code)
\* ------------------------------------------------------------------------
\* A text is its sequence of characters, kept run-length encoded: a sequence
\* of runs [ch, n], n >= 1 copies of the character ch, adjacent runs holding
\* different characters.  Two texts are equal iff their encodings are.
NL == "\n"
CR == "\r"

Run(c, n) == [n |-> n, ch |-> c]

\* a + b
Cat(a, b) ==
    IF a = <<>> THEN b
    ELSE IF b = <<>> THEN a
    ELSE IF a[Len(a)].ch = b[1].ch
    THEN SubSeq(a, 1, Len(a) - 1) \o <<Run(b[1].ch, a[Len(a)].n + b[1].n)>> \o Tail(b)
    ELSE a \o b

\* the text of a sequence of runs that may be empty or repeat a character
RECURSIVE Norm(_)
Norm(runs) ==
    IF runs = <<>> THEN <<>>
    ELSE IF Head(runs).n = 0 THEN Norm(Tail(runs))
    ELSE Cat(<<Head(runs)>>, Norm(Tail(runs)))

\* the text of a sequence of characters
Str(chars) == Norm([i \in 1..Len(chars) |-> Run(chars[i], 1)])

\* c * n
Rep(c, n) == Norm(<<Run(c, n)>>)

\* len(t)
RECURSIVE TextLen(_)
TextLen(t) == IF t = <<>> THEN 0 ELSE Head(t).n + TextLen(Tail(t))

\* the characters of a text, one by one
RECURSIVE Chars(_)
Chars(t) ==
    IF t = <<>> THEN <<>> ELSE [i \in 1..Head(t).n |-> Head(t).ch] \o Chars(Tail(t))

\* the characters str.strip() removes
IsSpace(c) == c \in {" ", NL, CR, "\t"}

\* str.strip(): what lies between the first and the last non-space character
Strip(t) ==
    IF \A i \in 1..Len(t) : IsSpace(t[i].ch) THEN <<>>
    ELSE LET first == CHOOSE i \in 1..Len(t) :
                          ~IsSpace(t[i].ch) /\ \A j \in 1..(i - 1) : IsSpace(t[j].ch)
             last  == CHOOSE i \in 1..Len(t) :
                          ~IsSpace(t[i].ch) /\ \A j \in (i + 1)..Len(t) : IsSpace(t[j].ch)
         IN  SubSeq(t, first, last)

\* Text-mode reading with universal newlines: "\r\n" and a lone "\r" are
\* read as "\n".
Translate(t) ==
    Norm([i \in 1..Len(t) |->
            IF t[i].ch = CR THEN Run(NL, t[i].n)
            ELSE IF t[i].ch = NL /\ i > 1 /\ t[i - 1].ch = CR THEN Run(NL, t[i].n - 1)
            ELSE t[i]])

\* str.splitlines(keepends=True) of translated text, as f.readlines() does
RECURSIVE SplitLines(_)
SplitLines(t) ==
    IF t = <<>> THEN <<>>
    ELSE IF \A i \in 1..Len(t) : t[i].ch # NL THEN <<t>>
    ELSE LET e == CHOOSE i \in 1..Len(t) :
                      t[i].ch = NL /\ \A j \in 1..(i - 1) : t[j].ch # NL
             rest == SubSeq(t, e + 1, Len(t))
         IN  <<SubSeq(t, 1, e - 1) \o <<Run(NL, 1)>>>>
                 \o SplitLines(IF t[e].n > 1 THEN <<Run(NL, t[e].n - 1)>> \o rest
                               ELSE rest)

\* f.readlines() of a text-mode file
ReadLines(text) == SplitLines(Translate(text))

DigitChars == <<"0", "1", "2", "3", "4", "5", "6", "7", "8", "9">>
IsDigit(c) == \E d \in 1..10 : DigitChars[d] = c
DigitVal(c) == (CHOOSE d \in 1..10 : DigitChars[d] = c) - 1

RECURSIVE DigitsValue(_, _)
DigitsValue(s, acc) ==
    IF s = <<>> THEN acc ELSE DigitsValue(Tail(s), acc * 10 + DigitVal(Head(s)))

\* int(text): surrounding whitespace, an optional sign, then decimal digits;
\* anything else raises ValueError (ok = FALSE)
ParseInt(text) ==
    LET s    == Chars(Strip(text))
        neg  == s # <<>> /\ Head(s) = "-"
        body == IF s # <<>> /\ Head(s) \in {"-", "+"} THEN Tail(s) ELSE s
    IN  IF body # <<>> /\ \A i \in 1..Len(body) : IsDigit(body[i])
        THEN [ok |-> TRUE,
              val |-> IF neg THEN 0 - DigitsValue(body, 0) ELSE DigitsValue(body, 0)]
        ELSE [ok |-> FALSE, val |-> 0]

\* ------------------------------------------------------------------------
\* Flat-file project store
\* ------------------------------------------------------------------------
\* A file is [exists, data]: data is the file's text.
NoFile == [exists |-> FALSE, data |-> <<>>]
FileOf(text) == [exists |-> TRUE, data |-> text]

\* read_projects(): the stripped non-blank lines of the file, in file order;
\* [] when the file is missing or reading raises (ioError)
ReadProjects(file, ioError) ==
    IF ~file.exists THEN <<>>
    ELSE IF ioError THEN <<>>
    ELSE LET lines    == ReadLines(file.data)
             stripped == [i \in 1..Len(lines) |-> Strip(lines[i])]
         IN  SelectSeq(stripped, LAMBDA l : l # <<>>)

\* what the loop of write_projects puts in the file: project + '\n' each
RECURSIVE Serialize(_)
Serialize(projects) ==
    IF projects = <<>> THEN <<>>
    ELSE Cat(Cat(Head(projects), Str(<<NL>>)), Serialize(Tail(projects)))

\* The ways write_projects can go: no fault; open() raises (the file is not
\* touched); a write raises after open(..., 'w') has truncated the file and
\* k entries have been written (they are flushed when the with-block closes
\* the file).
NoFault == [at |-> "none", k |-> 0]
OpenFault == [at |-> "open", k |-> 0]
WriteFault(k) == [at |-> "write", k |-> k]
WriteFaults(projects) ==
    {NoFault, OpenFault} \cup {WriteFault(k) : k \in 0..(Len(projects) - 1)}

\* write_projects(projects): the file afterwards and the returned flag
WriteProjects(file, projects, fault) ==
    IF fault.at = "none"
    THEN [ok |-> TRUE, file |-> FileOf(Serialize(projects))]
    ELSE IF fault.at = "open"
    THEN [ok |-> FALSE, file |-> file]
    ELSE [ok |-> FALSE, file |-> FileOf(Serialize(SubSeq(projects, 1, fault.k)))]

\* ------------------------------------------------------------------------
\* /projects
\* ------------------------------------------------------------------------
\* the cap of the add branch (len(projects_list) >= 3)
MaxProjects == 3
\* the length limit of a project name (len(...) > 100)
MaxNameLen == 100

None == "None"
NoMessage == <<"None">>

\* request.form: a record of the submitted fields
HasField(form, key) == key \in DOMAIN form
FormGet(form, key, default) == IF HasField(form, key) THEN form[key] ELSE default

\* int(request.form.get(key)): a missing field is None, and int(None) raises
IntField(form, key) ==
    IF HasField(form, key) THEN ParseInt(form[key]) ELSE [ok |-> FALSE, val |-> 0]

\* list.pop(idx) and list.insert(idx, x), idx counted from 0 and in range
PopAt(list, idx) == SubSeq(list, 1, idx) \o SubSeq(list, idx + 2, Len(list))
InsertAt(list, idx, x) ==
    SubSeq(list, 1, idx) \o <<x>> \o SubSeq(list, idx + 1, Len(list))
SetAt(list, idx, x) == [list EXCEPT ![idx + 1] = x]

\* What one request to /projects leaves behind: the file, the list handed to
\* the template, message and error, whether write_projects was called and how
\* it went, and the list that was passed to it.
Outcome(file, projects_list, message, error, write, attempt) ==
    [file |-> file, projects |-> projects_list, message |-> message,
     error |-> error, write |-> write, attempt |-> attempt]

NoWrite(file, projects_list, message, error) ==
    Outcome(file, projects_list, message, error, "none", <<>>)

\* AddProject with the cap compared by > instead of >=
AddProjectCapOffByOne(file, projects_list, form, fault) ==
    LET new_project == Strip(FormGet(form, "project_name", <<>>))
    IN  IF new_project = <<>>
        THEN NoWrite(file, projects_list, NoMessage, "Project name cannot be empty.")
        ELSE IF TextLen(new_project) > MaxNameLen
        THEN NoWrite(file, projects_list, NoMessage,
                     "Project name must be 100 characters or less.")
        ELSE IF Len(projects_list) > MaxProjects
        THEN NoWrite(file, projects_list, NoMessage, "Only three projects accepted.")
        ELSE LET appended == Append(projects_list, new_project)
                 w == WriteProjects(file, appended, fault)
             IN  IF w.ok
                 THEN Outcome(w.file, appended, <<"added", new_project>>, None,
                              "ok", appended)
                 ELSE Outcome(w.file, SubSeq(appended, 1, Len(appended) - 1),
                              NoMessage, "Failed to save project.", "failed", appended)

\* the add branch
AddProject(file, projects_list, form, fault) ==
    LET new_project == Strip(FormGet(form, "project_name", <<>>))
    IN  IF new_project = <<>>
        THEN NoWrite(file, projects_list, NoMessage, "Project name cannot be empty.")
        ELSE IF TextLen(new_project) > MaxNameLen
        THEN NoWrite(file, projects_list, NoMessage,
                     "Project name must be 100 characters or less.")
        ELSE IF Len(projects_list) >= MaxProjects
        THEN NoWrite(file, projects_list, NoMessage, "Only three projects accepted.")
        ELSE LET appended == Append(projects_list, new_project)
                 w == WriteProjects(file, appended, fault)
             IN  IF w.ok
                 THEN Outcome(w.file, appended, <<"added", new_project>>, None,
                              "ok", appended)
                 ELSE Outcome(w.file, SubSeq(appended, 1, Len(appended) - 1),
                              NoMessage, "Failed to save project.", "failed", appended)

\* the delete branch
DeleteProject(file, projects_list, form, fault) ==
    LET p == IntField(form, "delete_index")
        idx == p.val
    IN  IF ~p.ok
        THEN NoWrite(file, projects_list, NoMessage, "Invalid delete request.")
        ELSE IF 0 <= idx /\ idx < Len(projects_list)
        THEN LET deleted == projects_list[idx + 1]
                 popped == PopAt(projects_list, idx)
                 w == WriteProjects(file, popped, fault)
             IN  IF w.ok
                 THEN Outcome(w.file, popped, <<"deleted", deleted>>, None,
                              "ok", popped)
                 ELSE Outcome(w.file, InsertAt(popped, idx, deleted), NoMessage,
                              "Failed to delete from file.", "failed", popped)
        ELSE NoWrite(file, projects_list, NoMessage, None)

\* the update branch
UpdateProject(file, projects_list, form, fault) ==
    LET p == IntField(form, "update_index")
        idx == p.val
        new_name == Strip(FormGet(form, "updated_name", <<>>))
    IN  IF ~p.ok
        THEN NoWrite(file, projects_list, NoMessage, "Invalid update request.")
        ELSE IF new_name = <<>> \/ TextLen(new_name) > MaxNameLen
                \/ idx < 0 \/ idx >= Len(projects_list)
        THEN NoWrite(file, projects_list, NoMessage, "Invalid update.")
        ELSE LET old == projects_list[idx + 1]
                 updated == SetAt(projects_list, idx, new_name)
                 w == WriteProjects(file, updated, fault)
             IN  IF w.ok
                 THEN Outcome(w.file, updated, <<"updated", old, new_name>>, None,
                              "ok", updated)
                 ELSE Outcome(w.file, SetAt(updated, idx, old), NoMessage,
                              "Failed to save update.", "failed", updated)

\* projects(): the whole view function on a list already read
ProjectsOn(file, projects_list, method, form, fault) ==
    IF method # "POST" THEN NoWrite(file, projects_list, NoMessage, None)
    ELSE IF HasField(form, "add_project")
    THEN AddProject(file, projects_list, form, fault)
    ELSE IF HasField(form, "delete_index")
    THEN DeleteProject(file, projects_list, form, fault)
    ELSE IF HasField(form, "update_project")
    THEN UpdateProject(file, projects_list, form, fault)
    ELSE NoWrite(file, projects_list, NoMessage, None)

ProjectsView(file, method, form, fault, ioError) ==
    ProjectsOn(file, ReadProjects(file, ioError), method, form, fault)

\* ------------------------------------------------------------------------
\* / (calculator)
\* ------------------------------------------------------------------------
\* A float is [neg, n, d]: sign and magnitude n/d in lowest terms (zero keeps
\* its sign, as in IEEE 754).  The operands the model submits are binary
\* fractions and every result of theirs is one, so float arithmetic on them is
\* exact.  An optional value is <<>> (None) or <<v>>.
RECURSIVE Gcd(_, _)
Gcd(a, b) == IF b = 0 THEN a ELSE Gcd(b, a % b)

Float(neg, n, d) ==
    LET g == Gcd(n, d) IN [n |-> n \div g, d |-> d \div g, neg |-> neg]

RECURSIVE Pow10(_)
Pow10(k) == IF k = 0 THEN 1 ELSE 10 * Pow10(k - 1)

\* float(text) for plain decimal literals: surrounding whitespace, an
\* optional sign, digits with at most one point; anything else raises
\* ValueError (ok = FALSE)
ParseFloat(text) ==
    LET s      == Chars(Strip(text))
        neg    == s # <<>> /\ Head(s) = "-"
        body   == IF s # <<>> /\ Head(s) \in {"-", "+"} THEN Tail(s) ELSE s
        digits == SelectSeq(body, IsDigit)
        points == SelectSeq(body, LAMBDA c : c = ".")
        frac   == IF points = <<>> THEN 0
                  ELSE Len(body) - (CHOOSE i \in 1..Len(body) : body[i] = ".")
    IN  IF digits # <<>> /\ Len(points) <= 1 /\ Len(digits) + Len(points) = Len(body)
        THEN [ok |-> TRUE, val |-> Float(neg, DigitsValue(digits, 0), Pow10(frac))]
        ELSE [ok |-> FALSE, val |-> Float(FALSE, 0, 1)]

Signed(v) == IF v.neg THEN 0 - v.n ELSE v.n
Abs(i) == IF i < 0 THEN 0 - i ELSE i

\* num1 + num2; a zero sum is -0.0 only when both operands are negative
FAdd(a, b) ==
    LET num == Signed(a) * b.d + Signed(b) * a.d
    IN  IF num = 0 THEN Float(a.neg /\ b.neg, 0, 1)
        ELSE Float(num < 0, Abs(num), a.d * b.d)
\* num1 - num2
FSub(a, b) == FAdd(a, [b EXCEPT !.neg = ~b.neg])
\* num1 * num2
FMul(a, b) == Float(a.neg # b.neg, a.n * b.n, a.d * b.d)
\* num1 / num2, num2 not zero
FDiv(a, b) == Float(a.neg # b.neg, a.n * b.d, a.d * b.n)

\* str(n) of a natural number, as characters
RECURSIVE IntChars(_)
IntChars(n) ==
    IF n < 10 THEN <<DigitChars[n + 1]>>
    ELSE Append(IntChars(n \div 10), DigitChars[(n % 10) + 1])

\* str.rstrip(c): the text without its trailing c's
RStripChar(t, c) ==
    IF t # <<>> /\ t[Len(t)].ch = c THEN SubSeq(t, 1, Len(t) - 1) ELSE t

\* f"{v:.2f}": v rounded to hundredths (ties to even), two decimals
Fixed2(v) ==
    LET q  == (v.n * 100) \div v.d
        r  == (v.n * 100) % v.d
        h  == IF 2 * r > v.d THEN q + 1
              ELSE IF 2 * r = v.d THEN q + (q % 2)
              ELSE q
    IN  Str((IF v.neg THEN <<"-">> ELSE <<>>) \o IntChars(h \div 100) \o <<".">>
            \o <<DigitChars[((h % 100) \div 10) + 1], DigitChars[(h % 10) + 1]>>)

\* f"{result:.2f}".rstrip('0').rstrip('.')
FormatResult(v) == RStripChar(RStripChar(Fixed2(v), "0"), ".")

\* float(request.form.get(key)): a missing field is None, and float(None)
\* raises TypeError
FloatField(form, key) ==
    IF HasField(form, key)
    THEN LET p == ParseFloat(form[key])
         IN  [ok |-> p.ok, val |-> p.val, exc |-> IF p.ok THEN "none" ELSE "ValueError"]
    ELSE [ok |-> FALSE, val |-> Float(FALSE, 0, 1), exc |-> "TypeError"]

\* the if/elif chain on operator: the result (or None) and the error
Operate(num1, num2, operator) ==
    IF operator = "add" THEN [error |-> None, result |-> <<FAdd(num1, num2)>>]
    ELSE IF operator = "subtract"
    THEN [error |-> None, result |-> <<FSub(num1, num2)>>]
    ELSE IF operator = "multiply"
    THEN [error |-> None, result |-> <<FMul(num1, num2)>>]
    ELSE IF operator = "divide"
    THEN IF num2.n = 0
         THEN [error |-> "Error: Division by zero is not allowed.", result |-> <<>>]
         ELSE [error |-> None, result |-> <<FDiv(num1, num2)>>]
    ELSE [error |-> "Invalid operator selected.", result |-> <<>>]

\* symbol_map.get(operator, '?')
SymbolOf(operator) ==
    IF operator = "add" THEN "+"
    ELSE IF operator = "subtract" THEN "-"
    ELSE IF operator = "multiply" THEN "×"
    ELSE IF operator = "divide" THEN "÷"
    ELSE "?"

\* RecordEntry with the test "if result:" in place of "if result is not None:"
RecordEntryIfTruthy(history, num1, num2, operator, result) ==
    IF result # <<>> /\ result[1].n # 0
    THEN Append(history, [num1 |-> num1, num2 |-> num2,
                          result |-> FormatResult(result[1]),
                          operator_symbol |-> SymbolOf(operator)])
    ELSE history

\* if result is not None: session['history'].append(calculation_entry)
RecordEntry(history, num1, num2, operator, result) ==
    IF result # <<>>
    THEN Append(history, [num1 |-> num1, num2 |-> num2,
                          result |-> FormatResult(result[1]),
                          operator_symbol |-> SymbolOf(operator)])
    ELSE history

\* a session is [has, history]: whether the key 'history' is set, and its
\* value; initialize_session() sets it to [] when it is not
InitializeSession(session) ==
    IF session.has THEN session ELSE [history |-> <<>>, has |-> TRUE]

CalcOutcome(history, result, error, redirect) ==
    [error |-> error, result |-> result,
     session |-> [history |-> history, has |-> TRUE], redirect |-> redirect]

\* calculator(), after initialize_session()
Calculator(session, method, form) ==
    LET history == InitializeSession(session).history
    IN  IF method # "POST" THEN CalcOutcome(history, <<>>, None, FALSE)
        ELSE IF HasField(form, "clear") THEN CalcOutcome(<<>>, <<>>, None, TRUE)
        ELSE LET a == FloatField(form, "num1")
                 b == FloatField(form, "num2")
                 bad == IF ~a.ok THEN a.exc ELSE b.exc
             IN  IF ~a.ok \/ ~b.ok
                 THEN CalcOutcome(history, <<>>,
                        IF bad = "ValueError"
                        THEN "Invalid input: Please enter valid numeric values."
                        ELSE "An unexpected error occurred: TypeError", FALSE)
                 ELSE LET operator == FormGet(form, "operator", None)
                          c == Operate(a.val, b.val, operator)
                      IN  CalcOutcome(
                            RecordEntry(history, a.val, b.val, operator, c.result),
                            c.result, c.error, FALSE)

\* ------------------------------------------------------------------------
\* /stocks
\* ------------------------------------------------------------------------
LowerChars == <<"a", "b", "c", "d", "e", "f", "g", "h", "i", "j", "k", "l", "m",
                "n", "o", "p", "q", "r", "s", "t", "u", "v", "w", "x", "y", "z">>
UpperChars == <<"A", "B", "C", "D", "E", "F", "G", "H", "I", "J", "K", "L", "M",
                "N", "O", "P", "Q", "R", "S", "T", "U", "V", "W", "X", "Y", "Z">>

UpperChar(c) ==
    IF \E i \in 1..26 : LowerChars[i] = c
    THEN UpperChars[CHOOSE i \in 1..26 : LowerChars[i] = c]
    ELSE c

\* str.upper()
Upper(t) == Norm([i \in 1..Len(t) |-> Run(UpperChar(t[i].ch), t[i].n)])

\* code points of the characters of a date key
CodePoint(c) == IF c = "-" THEN 45 ELSE 48 + DigitVal(c)

\* a < b for Python strings, given as characters
RECURSIVE LexLess(_, _)
LexLess(a, b) ==
    IF b = <<>> THEN FALSE
    ELSE IF a = <<>> THEN TRUE
    ELSE IF Head(a) # Head(b) THEN CodePoint(Head(a)) < CodePoint(Head(b))
    ELSE LexLess(Tail(a), Tail(b))

\* sorted(keys): ascending
RECURSIVE Sorted(_)
Sorted(keys) ==
    IF keys = {} THEN <<>>
    ELSE LET least == CHOOSE k \in keys :
                          \A o \in keys \ {k} : LexLess(Chars(k), Chars(o))
         IN  <<least>> \o Sorted(keys \ {least})

TimeSeriesKey == "Time Series (Daily)"
NoteKey == "Note"
ErrorMessageKey == "Error Message"

PriceKeys == <<"1. open", "2. high", "3. low", "4. close", "5. volume">>

\* The sub-record of the latest date turned into stock_data; the first lookup
\* or conversion that raises decides the exception.  prices is a function
\* from the keys it has to texts.
Quote(ticker, date, prices) ==
    LET missing == {i \in 1..5 : PriceKeys[i] \notin DOMAIN prices}
        badAt(i) == IF PriceKeys[i] \notin DOMAIN prices THEN TRUE
                    ELSE IF i = 5 THEN ~ParseInt(prices[PriceKeys[i]]).ok
                    ELSE ~ParseFloat(prices[PriceKeys[i]]).ok
        bad == {i \in 1..5 : badAt(i)}
    IN  IF bad # {}
        THEN LET i == CHOOSE j \in bad : \A k \in bad : j <= k
             IN  [error |-> IF i \in missing THEN "Network error: KeyError"
                            ELSE "Network error: ValueError",
                  stock_data |-> <<>>]
        ELSE [error |-> None,
              stock_data |->
                 <<[ticker |-> ticker, date |-> date,
                    open |-> ParseFloat(prices[PriceKeys[1]]).val,
                    high |-> ParseFloat(prices[PriceKeys[2]]).val,
                    low |-> ParseFloat(prices[PriceKeys[3]]).val,
                    close |-> ParseFloat(prices[PriceKeys[4]]).val,
                    volume |-> ParseInt(prices[PriceKeys[5]]).val]>>]

\* ClassifyBody with "Error Message" looked for before "Note"
ClassifyErrorBeforeNote(ticker, data) ==
    IF TimeSeriesKey \in data.fields
    THEN LET time_series == data.series
             dates == Sorted(DOMAIN time_series)
         IN  IF dates = <<>>
             THEN [error |-> "Network error: IndexError", stock_data |-> <<>>]
             ELSE Quote(ticker, dates[1], time_series[dates[1]])
    ELSE IF ErrorMessageKey \in data.fields
    THEN [error |-> "Invalid ticker symbol or API error.", stock_data |-> <<>>]
    ELSE IF NoteKey \in data.fields
    THEN [error |-> "API call frequency limit reached. Please wait a minute or use your own key.",
          stock_data |-> <<>>]
    ELSE [error |-> "Unexpected response from stock API.", stock_data |-> <<>>]

\* The if/elif chain on the parsed body.  data is [fields, series]: the keys
\* of the JSON object and the value of "Time Series (Daily)", a function from
\* date keys to price sub-records.  sorted(...)[0] is dates[1].
ClassifyBody(ticker, data) ==
    IF TimeSeriesKey \in data.fields
    THEN LET time_series == data.series
             dates == Sorted(DOMAIN time_series)
         IN  IF dates = <<>>
             THEN [error |-> "Network error: IndexError", stock_data |-> <<>>]
             ELSE Quote(ticker, dates[1], time_series[dates[1]])
    ELSE IF NoteKey \in data.fields
    THEN [error |-> "API call frequency limit reached. Please wait a minute or use your own key.",
          stock_data |-> <<>>]
    ELSE IF ErrorMessageKey \in data.fields
    THEN [error |-> "Invalid ticker symbol or API error.", stock_data |-> <<>>]
    ELSE [error |-> "Unexpected response from stock API.", stock_data |-> <<>>]

\* stocks(): transport is "ok" when requests.get() and response.json()
\* succeed, else the exception they raise
Stocks(method, form, transport, data) ==
    IF method # "POST" THEN [error |-> None, ticker |-> <<>>, stock_data |-> <<>>]
    ELSE LET ticker == Upper(Strip(FormGet(form, "ticker", <<>>)))
         IN  IF ticker = <<>>
             THEN [error |-> "Please enter a ticker symbol.", ticker |-> ticker,
                   stock_data |-> <<>>]
             ELSE IF transport # "ok"
             THEN [error |-> "Network error: transport", ticker |-> ticker,
                   stock_data |-> <<>>]
             ELSE LET c == ClassifyBody(ticker, data)
                  IN  [error |-> c.error, ticker |-> ticker,
                       stock_data |-> c.stock_data]

\* ------------------------------------------------------------------------
\* write_projects seen by concurrent requests
\* ------------------------------------------------------------------------
\* the text without its first k characters
RECURSIVE DropChars(_, _)
DropChars(t, k) ==
    IF k = 0 \/ t = <<>> THEN t
    ELSE IF Head(t).n <= k THEN DropChars(Tail(t), k - Head(t).n)
    ELSE <<Run(Head(t).ch, Head(t).n - k)>> \o Tail(t)

\* FlushAtClose on a file opened for appending ('a')
FlushAppending(old, data) == Cat(old, data)

\* open(PROJECTS_FILE, 'w') truncates the file and leaves the position at 0;
\* the buffered lines are written there when the with-block closes the file,
\* over whatever another writer has put in the file since
FlushAtClose(old, data) == Cat(data, DropChars(old, TextLen(data)))

\* ------------------------------------------------------------------------
\* State
\* ------------------------------------------------------------------------
VARIABLES
    file,          \* projects.txt
    request,       \* the last request to /projects: method and form
    response,      \* what it rendered: projects, message, error
    preFile,       \* projects.txt when that request arrived
    lastWrite,     \* "none", "ok" or "failed": its call of write_projects
    session,       \* the client's session: [has, history]
    calcRequest,   \* the last request to /: method and form
    calcResponse,  \* what it rendered: result, error, history, redirect
    stockRequest,  \* the last request to /stocks: method, form, transport, data
    stockResponse, \* what it rendered: stock_data, error, ticker
    cfile,         \* projects.txt shared by two concurrent requests
    pc,            \* where each of them is: "start", "write", "opened", "done"
    creq,          \* the form each of them submitted
    plist,         \* projects_list of each of them
    cresp,         \* what each of them rendered: projects, message, error
    lastWriter     \* the request that closed the file last (0: none yet)

projVars == <<file, request, response, preFile, lastWrite>>
calcVars == <<session, calcRequest, calcResponse>>
stockVars == <<stockRequest, stockResponse>>
concVars == <<cfile, pc, creq, plist, cresp, lastWriter>>

vars == <<projVars, calcVars, stockVars, concVars>>

Requests == {1, 2}

IdleForm == [other |-> <<>>]
IdleResponse == [projects |-> <<>>, message |-> NoMessage, error |-> None]
EmptyData == [fields |-> {}, series |-> <<>>]

ProjIdle ==
    /\ file = NoFile
    /\ preFile = NoFile
    /\ request = [form |-> IdleForm, method |-> "GET"]
    /\ response = IdleResponse
    /\ lastWrite = "none"

CalcIdle ==
    /\ session = [history |-> <<>>, has |-> FALSE]
    /\ calcRequest = [form |-> IdleForm, method |-> "GET"]
    /\ calcResponse = [error |-> None, result |-> <<>>, history |-> <<>>,
                       redirect |-> FALSE]

StockIdle ==
    /\ stockRequest = [data |-> EmptyData, form |-> IdleForm, method |-> "GET",
                       transport |-> "ok"]
    /\ stockResponse = [error |-> None, ticker |-> <<>>, stock_data |-> <<>>]

ConcIdle ==
    /\ cfile = NoFile
    /\ pc = [r \in Requests |-> "done"]
    /\ creq = [r \in Requests |-> IdleForm]
    /\ plist = [r \in Requests |-> <<>>]
    /\ cresp = [r \in Requests |-> IdleResponse]
    /\ lastWriter = 0

\* ---- inputs --------------------------------------------------------------
A100 == Rep("a", MaxNameLen)
A101 == Rep("a", MaxNameLen + 1)

\* submitted names: empty, blank, plain, padded, with a line break inside,
\* exactly at the limit, over the limit
NameInputs ==
    {<<>>, Str(<<" ">>), Str(<<" ", "a", NL>>), Str(<<"a", NL, "a">>), A100, A101}

\* submitted indices: -1 .. MaxLines, padded, not a number, empty
IndexInputs ==
    {Str(<<DigitChars[n + 1]>>) : n \in 0..MaxLines}
        \cup {Str(<<"-", "1">>), Str(<<" ", "1", " ">>), Str(<<"x">>), <<>>}

AddForms ==
    {[add_project |-> <<>>, project_name |-> n] : n \in NameInputs}
        \cup {[add_project |-> <<>>]}
        \cup {[add_project |-> <<>>, project_name |-> Str(<<"a">>), delete_index |-> Str(<<"0">>)]}
DeleteForms == {[delete_index |-> i] : i \in IndexInputs}
UpdateForms ==
    {[update_project |-> <<>>, update_index |-> i, updated_name |-> n] :
        i \in IndexInputs, n \in {A100}}
        \cup {[update_project |-> <<>>, update_index |-> i, updated_name |-> n] :
                 i \in {Str(<<"0">>), Str(<<"2">>)}, n \in NameInputs}
        \cup {[update_project |-> <<>>, updated_name |-> Str(<<"a">>)]}
OtherForms == {IdleForm}

\* the file is readable whenever it exists
ReadFaults == {FALSE}

\* project files the application can start from: none, empty, hand-edited
InitFiles == {NoFile, FileOf(<<>>), FileOf(Str(<<" ", "a", NL, NL, "a">>))}


ProjInit ==
    /\ file \in InitFiles
    /\ preFile = file
    /\ request = [form |-> IdleForm, method |-> "GET"]
    /\ response = [projects |-> ReadProjects(file, FALSE),
                   message |-> NoMessage, error |-> None]
    /\ lastWrite = "none"

\* number of line terminators in the file
LineCount(f) == TextLen(SelectSeq(f.data, LAMBDA r : r.ch = NL))

\* one request to /projects, from read_projects() to render_template();
\* fault is how its call of write_projects, if it makes one, goes
Handle(method, form, ioError) ==
    \E projects_list \in {ReadProjects(file, ioError)} :
    \E plain \in {ProjectsOn(file, projects_list, method, form, NoFault)} :
    \E fault \in (IF plain.write = "none" THEN {NoFault}
                  ELSE WriteFaults(plain.attempt)) :
    \E r \in {IF fault = NoFault THEN plain
              ELSE ProjectsOn(file, projects_list, method, form, fault)} :
        /\ LineCount(r.file) <= MaxLines
        /\ file' = r.file
        /\ preFile' = file
        /\ request' = [form |-> form, method |-> method]
        /\ response' = [projects |-> r.projects, message |-> r.message,
                        error |-> r.error]
        /\ lastWrite' = r.write
        /\ UNCHANGED <<calcVars, stockVars, concVars>>

GetProjects == \E form \in OtherForms, io \in ReadFaults : Handle("GET", form, io)

PostAdd == \E form \in AddForms, io \in ReadFaults : Handle("POST", form, io)

PostDelete == \E form \in DeleteForms, io \in ReadFaults : Handle("POST", form, io)

PostUpdate == \E form \in UpdateForms, io \in ReadFaults : Handle("POST", form, io)

PostOther == \E form \in OtherForms, io \in ReadFaults : Handle("POST", form, io)

Init == ProjInit /\ CalcIdle /\ StockIdle /\ ConcIdle

Next == GetProjects \/ PostAdd \/ PostDelete \/ PostUpdate \/ PostOther

Spec == Init /\ [][Next]_vars

\* ---- / -------------------------------------------------------------------
\* submitted operands: a negative fraction and text that is no number; zero,
\* a padded integer and the empty string
Num1Inputs == {Str(<<"-", "0", ".", "5">>), Str(<<"x">>)}
Num2Inputs == {Str(<<" ", "4", " ">>), <<>>}
OperatorInputs == {"add", "subtract", "multiply", "divide", "power"}

\* every operator on a zero second operand, division by the other second
\* operands, and forms that lack a field
CalcForms ==
    {[num1 |-> a, num2 |-> Str(<<"0">>), operator |-> o] :
        a \in Num1Inputs, o \in OperatorInputs}
        \cup {[num1 |-> Str(<<"-", "0", ".", "5">>), num2 |-> b, operator |-> "divide"] :
                 b \in Num2Inputs}
        \cup {[num1 |-> Str(<<"4">>), num2 |-> Str(<<"0">>)]}
        \cup {[num2 |-> Str(<<"0">>), operator |-> "add"]}
ClearForms ==
    {[clear |-> <<>>],
     [num1 |-> Str(<<"x">>), num2 |-> <<>>, operator |-> "divide", clear |-> <<>>]}

\* one request to /, initialize_session() included
HandleCalc(method, form) ==
    \E r \in {Calculator(session, method, form)} :
        /\ Len(r.session.history) <= MaxHist
        /\ session' = r.session
        /\ calcRequest' = [form |-> form, method |-> method]
        /\ calcResponse' = [error |-> r.error, result |-> r.result,
                            history |-> r.session.history, redirect |-> r.redirect]
        /\ UNCHANGED <<projVars, stockVars, concVars>>

GetCalculator == HandleCalc("GET", IdleForm)

PostCalculate == \E form \in CalcForms : HandleCalc("POST", form)

PostClear == \E form \in ClearForms : HandleCalc("POST", form)

CalcInit == ProjIdle /\ CalcIdle /\ StockIdle /\ ConcIdle

CalcNext == GetCalculator \/ PostCalculate \/ PostClear

SpecCalc == CalcInit /\ [][CalcNext]_vars

\* ---- /stocks ---------------------------------------------------------------
TickerInputs == {<<>>, Str(<<" ">>), Str(<<" ", "i", "b", "m", " ">>)}

Date1 == Str(<<"2", "0", "2", "3", "-", "1", "2", "-", "2", "9">>)
Date2 == Str(<<"2", "0", "2", "4", "-", "0", "1", "-", "0", "2">>)
Date3 == Str(<<"2", "0", "2", "4", "-", "0", "1", "-", "1", "0">>)
DateKeys == {Date1, Date2, Date3}

\* price sub-records: well formed, with a volume that is no integer, without
\* "1. open"
Prices(open, volume) ==
    [k \in {PriceKeys[i] : i \in 1..5} |->
        IF k = "1. open" THEN open
        ELSE IF k = "5. volume" THEN volume
        ELSE Str(<<"2", ".", "5">>)]
GoodPrices == {Prices(Str(<<"1", ".", "5">>), Str(<<"7">>)),
               Prices(Str(<<"3">>), Str(<<"9">>))}
BadPrices ==
    {Prices(Str(<<"1", ".", "5">>), Str(<<"7", ".", "5">>)),
     [k \in {PriceKeys[i] : i \in 2..5} |-> Str(<<"2">>)]}

\* "Time Series (Daily)" maps with at most MaxDates dates
SeriesInputs ==
    UNION {[ds -> GoodPrices \cup BadPrices] :
              ds \in {d \in SUBSET DateKeys : Cardinality(d) <= MaxDates}}

\* parsed JSON objects: any of the three keys present or absent
BodyInputs ==
    {[fields |-> f, series |-> s] :
        f \in SUBSET {NoteKey, ErrorMessageKey}, s \in {<<>>}}
      \cup {[fields |-> f \cup {TimeSeriesKey}, series |-> s] :
               f \in SUBSET {NoteKey, ErrorMessageKey}, s \in SeriesInputs}

TransportInputs == {"ok", "ConnectionError", "JSONDecodeError"}

\* one request to /stocks
HandleStocks(method, form, transport, data) ==
    \E r \in {Stocks(method, form, transport, data)} :
        /\ stockRequest' = [data |-> data, form |-> form,
                            method |-> method, transport |-> transport]
        /\ stockResponse' = [error |-> r.error, ticker |-> r.ticker,
                             stock_data |-> r.stock_data]
        /\ UNCHANGED <<projVars, calcVars, concVars>>

GetStocks == HandleStocks("GET", IdleForm, "ok", EmptyData)

\* a non-empty ticker: the body of the upstream reply decides the response
PostStocks ==
    \E t \in {t \in TickerInputs : Strip(t) # <<>>}, data \in BodyInputs :
        HandleStocks("POST", [ticker |-> t], "ok", data)

\* requests.get() or response.json() raises
PostStocksTransportError ==
    \E t \in {t \in TickerInputs : Strip(t) # <<>>},
       transport \in TransportInputs \ {"ok"} :
        HandleStocks("POST", [ticker |-> t], transport, EmptyData)

\* an empty or missing ticker: no request is sent upstream
PostStocksNoTicker ==
    \E form \in {IdleForm} \cup {[ticker |-> t] : t \in {t \in TickerInputs : Strip(t) = <<>>}} :
        HandleStocks("POST", form, "ok", EmptyData)

StockInit == ProjIdle /\ CalcIdle /\ StockIdle /\ ConcIdle

StockNext == GetStocks \/ PostStocks \/ PostStocksTransportError \/ PostStocksNoTicker

SpecStock == StockInit /\ [][StockNext]_vars

\* ---- two concurrent requests to /projects ----------------------------------
ConcForms ==
    {[add_project |-> <<>>, project_name |-> Str(<<"a">>)],
     [add_project |-> <<>>, project_name |-> Str(<<"b">>)],
     [delete_index |-> Str(<<"0">>)],
     [delete_index |-> Str(<<"7">>)],
     [update_project |-> <<>>, update_index |-> Str(<<"0">>),
      updated_name |-> Str(<<"b", "b">>)]}

ConcInitFiles ==
    {NoFile, FileOf(Serialize(<<Str(<<"a">>)>>)),
     FileOf(Serialize(<<Str(<<"a">>), Str(<<"b">>)>>))}

\* what request r does given how its write_projects goes
RunOf(r, fault) == ProjectsOn(cfile, plist[r], "POST", creq[r], fault)

Rendered(o) == [projects |-> o.projects, message |-> o.message, error |-> o.error]

\* r arrives: read_projects(), validation and the change of projects_list;
\* a request that does not reach write_projects renders at once
Arrive(r) ==
    /\ pc[r] = "start"
    /\ \E form \in ConcForms :
       \E projects_list \in {ReadProjects(cfile, FALSE)} :
       \E o \in {ProjectsOn(cfile, projects_list, "POST", form, NoFault)} :
           /\ creq' = [creq EXCEPT ![r] = form]
           /\ plist' = [plist EXCEPT ![r] = projects_list]
           /\ IF o.write = "none"
              THEN /\ pc' = [pc EXCEPT ![r] = "done"]
                   /\ cresp' = [cresp EXCEPT ![r] = Rendered(o)]
              ELSE /\ pc' = [pc EXCEPT ![r] = "write"]
                   /\ UNCHANGED cresp
    /\ UNCHANGED <<cfile, lastWriter>>
    /\ UNCHANGED <<projVars, calcVars, stockVars>>

\* write_projects: open(PROJECTS_FILE, 'w') truncates the file
OpenForWrite(r) ==
    /\ pc[r] = "write"
    /\ cfile' = FileOf(<<>>)
    /\ pc' = [pc EXCEPT ![r] = "opened"]
    /\ UNCHANGED <<creq, plist, cresp, lastWriter>>
    /\ UNCHANGED <<projVars, calcVars, stockVars>>

\* write_projects: open() raises; the request rolls back and renders
OpenFails(r) ==
    /\ pc[r] = "write"
    /\ pc' = [pc EXCEPT ![r] = "done"]
    /\ cresp' = [cresp EXCEPT ![r] = Rendered(RunOf(r, OpenFault))]
    /\ UNCHANGED <<cfile, creq, plist, lastWriter>>
    /\ UNCHANGED <<projVars, calcVars, stockVars>>

\* write_projects: the lines are written and the file is closed; the
\* request renders its success message
CloseFile(r) ==
    /\ pc[r] = "opened"
    /\ \E o \in {RunOf(r, NoFault)} :
           /\ cfile' = FileOf(FlushAtClose(cfile.data, Serialize(o.attempt)))
           /\ cresp' = [cresp EXCEPT ![r] = Rendered(o)]
    /\ pc' = [pc EXCEPT ![r] = "done"]
    /\ lastWriter' = r
    /\ UNCHANGED <<creq, plist>>
    /\ UNCHANGED <<projVars, calcVars, stockVars>>

ConcInit ==
    /\ ProjIdle /\ CalcIdle /\ StockIdle
    /\ cfile \in ConcInitFiles
    /\ pc = [r \in Requests |-> "start"]
    /\ creq = [r \in Requests |-> IdleForm]
    /\ plist = [r \in Requests |-> <<>>]
    /\ cresp = [r \in Requests |-> IdleResponse]
    /\ lastWriter = 0

ConcNext ==
    \E r \in Requests : Arrive(r) \/ OpenForWrite(r) \/ OpenFails(r) \/ CloseFile(r)

SpecConc == ConcInit /\ [][ConcNext]_vars

\* ------------------------------------------------------------------------
\* Properties of /projects (specification Spec)
\* ------------------------------------------------------------------------
\* what a fresh read_projects() returns now, and returned when the last
\* request arrived
StoredNow == ReadProjects(file, FALSE)
StoredBefore == ReadProjects(preFile, FALSE)

IsPost == request.method = "POST"
IsAdd == IsPost /\ HasField(request.form, "add_project")
IsDelete == IsPost /\ ~IsAdd /\ HasField(request.form, "delete_index")
IsUpdate == IsPost /\ ~IsAdd /\ ~IsDelete /\ HasField(request.form, "update_project")

\* the submitted name after trimming, and whether it passes validation
TrimmedName ==
    Strip(FormGet(request.form,
                  IF IsAdd THEN "project_name" ELSE "updated_name", <<>>))
NameValid == TrimmedName # <<>> /\ TextLen(TrimmedName) <= MaxNameLen

\* the submitted index, when it is an integer
SubmittedIndex ==
    IntField(request.form, IF IsDelete THEN "delete_index" ELSE "update_index")
IndexInRange ==
    SubmittedIndex.ok /\ 0 <= SubmittedIndex.val
        /\ SubmittedIndex.val < Len(StoredBefore)
IndexOutOfRange ==
    SubmittedIndex.ok /\ (SubmittedIndex.val < 0
                            \/ SubmittedIndex.val >= Len(StoredBefore))

\* C1: a fresh read_projects() returns at most 3 projects in every reachable
\* state.
CapInvariant == Len(StoredNow) <= MaxProjects

RejectedRequest ==
    \/ IsAdd /\ (~NameValid \/ Len(StoredBefore) >= MaxProjects)
    \/ IsUpdate /\ (~NameValid \/ IndexOutOfRange)

RejectedRequestChangesNothing ==
    RejectedRequest =>
        /\ response.error # None
        /\ response.message = NoMessage
        /\ lastWrite = "none"
        /\ file = preFile
        /\ response.projects = StoredBefore

\* a 4th add, with a valid name, on a 3-entry list was rejected and the list
\* still has 3 entries
FourthAddRejected ==
    /\ IsAdd /\ NameValid
    /\ Len(StoredBefore) = MaxProjects
    /\ response.error = "Only three projects accepted."
    /\ Len(StoredNow) = MaxProjects

\* C4: a delete with an index outside [0, count) shows an error, shows no
\* success message and leaves the stored list unchanged.
DeleteOutOfRangeReported ==
    (IsDelete /\ IndexOutOfRange) =>
        /\ response.error # None
        /\ response.message = NoMessage
        /\ StoredNow = StoredBefore

\* C5: a successful delete(i) stores the list without its element i, a
\* successful update(i, name) stores the list with the trimmed name at i, a
\* successful add(name) stores the list with the trimmed name appended.
ExpectedAfter(L, form) ==
    IF HasField(form, "add_project")
    THEN L \o <<Strip(FormGet(form, "project_name", <<>>))>>
    ELSE IF HasField(form, "delete_index")
    THEN LET i == IntField(form, "delete_index").val + 1
         IN  [k \in 1..(Len(L) - 1) |-> IF k < i THEN L[k] ELSE L[k + 1]]
    ELSE LET i == IntField(form, "update_index").val + 1
         IN  [k \in 1..Len(L) |->
                 IF k = i THEN Strip(FormGet(form, "updated_name", <<>>)) ELSE L[k]]

ExpectedStored == ExpectedAfter(StoredBefore, request.form)

IndexSemantics == lastWrite = "ok" => StoredNow = ExpectedStored

\* C10: after a successful add or update, read_projects() returns exactly the
\* list that was written and rendered.
WriteReadRoundTrip ==
    (lastWrite = "ok" /\ (IsAdd \/ IsUpdate)) => StoredNow = response.projects


\* ------------------------------------------------------------------------
\* Properties of / (specification SpecCalc)
\* ------------------------------------------------------------------------
IsClear(req) == req.method = "POST" /\ HasField(req.form, "clear")

\* the POST computes a result: two numeric operands and add, subtract,
\* multiply, or divide by a divisor that is not zero
Computes(req) ==
    /\ req.method = "POST" /\ ~IsClear(req)
    /\ FloatField(req.form, "num1").ok
    /\ FloatField(req.form, "num2").ok
    /\ HasField(req.form, "operator")
    /\ \/ req.form.operator \in {"add", "subtract", "multiply"}
       \/ req.form.operator = "divide" /\ FloatField(req.form, "num2").val.n # 0

\* C6: every POST that computes a result appends one entry, for its operands
\* and operator, at the end of the history; a clear POST empties the history;
\* every other request leaves the history as it is.  So the history is the
\* successful calculations since the last clear, in call order.
HistoryTracksCalculations ==
    [][LET req == calcRequest'
           old == session.history
           new == session'.history
       IN  IF IsClear(req) THEN new = <<>>
           ELSE IF Computes(req)
           THEN /\ Len(new) = Len(old) + 1
                /\ SubSeq(new, 1, Len(old)) = old
                /\ new[Len(new)].num1 = FloatField(req.form, "num1").val
                /\ new[Len(new)].num2 = FloatField(req.form, "num2").val
                /\ new[Len(new)].operator_symbol = SymbolOf(req.form.operator)
           ELSE new = old]_vars

\* two calculations with different operators are in the history, in the order
\* made, and the last POST, a division by zero, has added nothing
HistoryKeptAfterFailedPost ==
    /\ Len(session.history) = 2
    /\ session.history[1].operator_symbol = "×"
    /\ session.history[2].operator_symbol = "+"
    /\ calcRequest.method = "POST"
    /\ HasField(calcRequest.form, "operator")
    /\ calcRequest.form.operator = "divide"
    /\ calcResponse.error = "Error: Division by zero is not allowed."
    /\ calcResponse.history = session.history

\* ------------------------------------------------------------------------
\* Properties of /stocks (specification SpecStock)
\* ------------------------------------------------------------------------
RateLimitError ==
    "API call frequency limit reached. Please wait a minute or use your own key."

\* the last request was a POST with a non-empty ticker whose response body
\* was received and parsed
BodyParsed ==
    /\ stockRequest.method = "POST"
    /\ stockResponse.ticker # <<>>
    /\ stockRequest.transport = "ok"

BodyHas(key) == key \in stockRequest.data.fields

\* C7 as stated: a body that contains "Note" always yields the rate-limit
\* error, whatever other fields are present.
NoteAlwaysRateLimit ==
    (BodyParsed /\ BodyHas(NoteKey)) => stockResponse.error = RateLimitError

\* C7 as amended: a body that contains "Note" and no "Time Series (Daily)"
\* yields the rate-limit error and no quote, whether or not "Error Message"
\* is present.
NoteWithoutSeriesRateLimit ==
    (BodyParsed /\ BodyHas(NoteKey) /\ ~BodyHas(TimeSeriesKey)) =>
        /\ stockResponse.error = RateLimitError
        /\ stockResponse.stock_data = <<>>

\* a body with "Note" and "Error Message" was classified as rate limited
NoteAndErrorMessageSeen ==
    /\ BodyParsed
    /\ BodyHas(NoteKey) /\ BodyHas(ErrorMessageKey) /\ ~BodyHas(TimeSeriesKey)
    /\ stockResponse.error = RateLimitError

\* C8: the quote's date is the lexicographically greatest key of the
\* "Time Series (Daily)" map, and its figures are that key's sub-record.
GreatestKey(series) ==
    CHOOSE k \in DOMAIN series :
        \A o \in DOMAIN series : o = k \/ LexLess(Chars(o), Chars(k))

LatestDateIsGreatestKey ==
    stockResponse.stock_data # <<>> =>
        LET quote == stockResponse.stock_data[1]
            series == stockRequest.data.series
            latest == GreatestKey(series)
        IN  /\ quote.date = latest
            /\ quote.open = ParseFloat(series[latest][PriceKeys[1]]).val
            /\ quote.high = ParseFloat(series[latest][PriceKeys[2]]).val
            /\ quote.low = ParseFloat(series[latest][PriceKeys[3]]).val
            /\ quote.close = ParseFloat(series[latest][PriceKeys[4]]).val
            /\ quote.volume = ParseInt(series[latest][PriceKeys[5]]).val

\* ------------------------------------------------------------------------
\* Properties of concurrent requests to /projects (specification SpecConc)
\* ------------------------------------------------------------------------
Succeeded(r) == pc[r] = "done" /\ cresp[r].message # NoMessage

\* p is the beginning of the text t
StartsWith(t, p) ==
    TextLen(p) <= TextLen(t) /\ Cat(p, DropChars(t, TextLen(p))) = t

OtherRequest(r) == CHOOSE q \in Requests : q # r

\* C9: when both requests have reported success, the file begins with the
\* list of the request that closed it last, a list built from what that
\* request had read and nothing else; there is an interleaving in which both
\* read before either writes, and then the other request's change is lost.
LastWriterWins ==
    (\A r \in Requests : Succeeded(r)) =>
        StartsWith(cfile.data,
                   Serialize(ExpectedAfter(plist[lastWriter], creq[lastWriter])))

\* both requests read the same list, both added a project and reported
\* success, and the file holds the list read plus the last writer's project
\* alone
LostUpdateReached ==
    /\ \A r \in Requests : Succeeded(r) /\ cresp[r].message[1] = "added"
    /\ plist[1] = plist[2]
    /\ cresp[1].message[2] # cresp[2].message[2]
    /\ lastWriter \in Requests
    /\ ReadProjects(cfile, FALSE)
           = Append(plist[lastWriter], cresp[lastWriter].message[2])
    /\ \A i \in 1..Len(ReadProjects(cfile, FALSE)) :
           ReadProjects(cfile, FALSE)[i] # cresp[OtherRequest(lastWriter)].message[2]
====
